---- MODULE Spec2Model ----
(***************************************************************************)
(* CPU scheduling simulations of the repository: FCFS (question1.py),      *)
(* non-preemptive SJF (question2.py), preemptive SJF / SRTF                *)
(* (question3.py), Round-Robin (question4.py) and the two-level            *)
(* multi-processor Round-Robin loop (question6.py).                        *)
(*                                                                         *)
(* Every scheduler is a loop; one action models one iteration of that loop *)
(* (for question6.py: the loop head, and one pass of the inner             *)
(* per-processor for loop).  `alg` selects the program that is running.    *)
(***************************************************************************)
EXTENDS Integers, Sequences, FiniteSets, TLC

\* ---------------------------------------------------------------- bounds
MaxProcs      == 3   \* longest input list
MaxArrival    == 2   \* latest arrival time of a generated process
MaxWork       == 5   \* largest sum of the bursts of a generated list
MaxQuantum    == 2   \* largest time quantum
MaxProcessors == 2   \* largest processor count of the multi-processor loop
MaxSegments   == 48  \* longest Round-Robin timeline followed (cuts endless runs)

\* ------------------------------------------------------------- constants
Idle     == "Idle"     \* owner of an idle segment
None     == "None"     \* Python None where a process id is expected
NoneTime == 0 - 1      \* Python None where a time is expected (event_start)
PIDS     == <<"P1", "P2", "P3", "P4", "P5">>

VARIABLES
  alg,               \* "fcfs" | "sjf" | "srtf" | "rr" | "mp"
  pc,                \* "run" | "mp_proc" | "done" | "crashed"
  processes,         \* the input list of {id, arrival, burst}
  processes_sorted,  \* sorted(processes, key=arrival)
  time_quantum,      \* time_quantum / TIME_QUANTUM
  num_proc,          \* NUM_PROC
  timeline,          \* list of {id, start, end}
  current_time,      \* FCFS, SJF, RR clock
  k,                 \* FCFS: position of the for loop in processes_sorted
  ready_queue,       \* SJF: process dicts; RR: process dicts; MP: ids
  completed,         \* SJF completed_processes, SRTF completed
  remaining,         \* id -> remaining burst (SRTF, RR, MP)
  time,              \* SRTF clock
  current_process,   \* SRTF
  segment_start,     \* SRTF
  i,                 \* RR arrival pointer (0-based, as in the source);
                     \* MP: index of the inner for loop
  global_time,       \* MP clock
  schedule_events,   \* MP: list of (id, start, end, processor)
  finished,          \* MP: set of finished ids
  processors         \* MP: list of {proc, remaining_slice, event_start, idle}

vars == <<alg, pc, processes, processes_sorted, time_quantum, num_proc,
          timeline, current_time, k, ready_queue, completed, remaining,
          time, current_process, segment_start, i, global_time,
          schedule_events, finished, processors>>

\* --------------------------------------------------------------- helpers
Min(a, b) == IF a < b THEN a ELSE b
Max(a, b) == IF a > b THEN a ELSE b

Range(s) == {s[x] : x \in DOMAIN s}

\* Python's sorted(s, key=...) is stable: an element goes after every element
\* with a smaller key and after the earlier elements with an equal key.
StableSortBy(s, key) ==
  LET rank(x) == Cardinality({y \in 1..Len(s) :
                     key[y] < key[x] \/ (key[y] = key[x] /\ y < x)}) + 1
  IN  [r \in 1..Len(s) |-> s[CHOOSE x \in 1..Len(s) : rank(x) = r]]

\* sorts that leave the list as it is
SortByArrivalOmitted(ps) == ps
SortByBurstOmitted(ps) == ps

SortByArrival(ps) == StableSortBy(ps, [x \in 1..Len(ps) |-> ps[x].arrival])
SortByBurst(ps)   == StableSortBy(ps, [x \in 1..Len(ps) |-> ps[x].burst])

Ids(ps) == {ps[x].id : x \in 1..Len(ps)}

\* sum of (end - start) over the segments of `tl` owned by `id`
RECURSIVE Duration(_, _)
Duration(tl, id) ==
  IF tl = <<>> THEN 0
  ELSE (IF Head(tl).id = id THEN Head(tl).end - Head(tl).start ELSE 0)
       + Duration(Tail(tl), id)

Seg(id, s, e) == [id |-> id, start |-> s, end |-> e]


\* ------------------------------------------------- scheduler subroutines
\* IdleBefore with the idle segment forgotten
IdleBeforeForgotten(now, arrival) == <<>>

\* question1.py lines 27-32: the Idle segment emitted when the CPU has
\* nothing to run before the next process arrives
IdleBefore(now, arrival) ==
  IF now < arrival THEN <<Seg(Idle, now, arrival)>> ELSE <<>>

\* question1.py lines 26-35: start_time is current_time, which line 32 has
\* moved to the arrival when the CPU was idle before it
StartTimeNow(now, arrival) == now

StartTime(now, arrival) == IF now < arrival THEN arrival ELSE now

\* question2.py lines 19-22: admit, in processes_sorted order, every process
\* that is not completed, has arrived and is not already queued
RECURSIVE AdmitSJF(_, _, _, _)
AdmitSJF(rq, ps, done, t) ==
  IF ps = <<>> THEN rq
  ELSE LET p == Head(ps)
       IN  AdmitSJF(IF p.id \notin done /\ p.arrival <= t /\ p \notin Range(rq)
                    THEN Append(rq, p) ELSE rq,
                    Tail(ps), done, t)

\* min(p['arrival'] for p in processes_sorted if p['id'] not in completed)
NextArrival(ps, done) ==
  LET as == {ps[x].arrival : x \in {y \in 1..Len(ps) : ps[y].id \notin done}}
  IN  CHOOSE a \in as : \A b \in as : a <= b

\* eligibility that starts one unit after the arrival
AvailableLate(ps, done, t) ==
  SelectSeq(ps, LAMBDA p : p.arrival < t /\ p.id \notin done)

\* question3.py line 25
Available(ps, done, t) ==
  SelectSeq(ps, LAMBDA p : p.arrival <= t /\ p.id \notin done)

\* a min that returns the last element with the least key
LastMinRemaining(av, rem) ==
  av[CHOOSE x \in 1..Len(av) :
       /\ \A y \in 1..Len(av) : rem[av[x].id] <= rem[av[y].id]
       /\ \A y \in (x + 1)..Len(av) : rem[av[y].id] > rem[av[x].id]]

\* Python's min(seq, key=...) returns the first element with the least key
FirstMinRemaining(av, rem) ==
  av[CHOOSE x \in 1..Len(av) :
       /\ \A y \in 1..Len(av) : rem[av[x].id] <= rem[av[y].id]
       /\ \A y \in 1..(x - 1) : rem[av[y].id] > rem[av[x].id]]

\* question4.py lines 27-29, 37-39, 51-53: the arrival pointer loop
RECURSIVE AdmitRR(_, _, _, _)
AdmitRR(rq, ptr, ps, t) ==
  IF ptr < Len(ps) /\ ps[ptr + 1].arrival <= t
  THEN AdmitRR(Append(rq, ps[ptr + 1]), ptr + 1, ps, t)
  ELSE [queue |-> rq, i |-> ptr]

\* a slice end that re-queues the preempted process before the arrivals
AfterSliceRequeueFirst(rest, ptr, ps, t, proc, unfinished) ==
  AdmitRR(IF unfinished THEN Append(rest, proc) ELSE rest, ptr, ps, t)

\* question4.py lines 50-57: at the end of a slice the arrivals are admitted,
\* then the process is re-queued if it is not finished
AfterSlice(rest, ptr, ps, t, proc, unfinished) ==
  LET adm == AdmitRR(rest, ptr, ps, t)
  IN  [queue |-> IF unfinished THEN Append(adm.queue, proc) ELSE adm.queue,
       i |-> adm.i]

\* ExecTime that ignores the quantum and runs the process to completion
ExecTimeToCompletion(q, rem) == rem

\* ExecTime that always grants the whole quantum
ExecTimeWholeQuantum(q, rem) == q

\* question4.py line 43 / question6.py line 82
ExecTime(q, rem) == Min(q, rem)

\* question6.py add_arrivals
ArrivalsUpTo(ps, t) ==
  LET hit == SelectSeq(ps, LAMBDA p : p.arrival <= t)
  IN  [x \in 1..Len(hit) |-> hit[x].id]

ArrivalsAt(ps, t) ==
  LET hit == SelectSeq(ps, LAMBDA p : p.arrival = t)
  IN  [x \in 1..Len(hit) |-> hit[x].id]

\* ---------------------------------------------------------------- inputs
\* the lists of the __main__ blocks
MainFCFS == << [id |-> "P1", arrival |-> 0,  burst |-> 5],
               [id |-> "P2", arrival |-> 3,  burst |-> 1],
               [id |-> "P3", arrival |-> 10, burst |-> 11],
               [id |-> "P4", arrival |-> 12, burst |-> 2],
               [id |-> "P5", arrival |-> 15, burst |-> 12] >>
MainSJF  == [MainFCFS EXCEPT ![4].burst = 5]
MainMP   == [MainSJF  EXCEPT ![2].burst = 4]
\* the three-process Round-Robin example
MainRR   == SubSeq(MainSJF, 1, 3)

RECURSIVE TotalBurst(_)
TotalBurst(ps) == IF ps = <<>> THEN 0 ELSE Head(ps).burst + TotalBurst(Tail(ps))

\* valid inputs: non-empty, unique ids, arrival >= 0, burst >= 1
GenInputs ==
  UNION { { ps \in { [x \in 1..n |-> [id |-> PIDS[x], arrival |-> f[x][1],
                                                       burst |-> f[x][2]]] :
                       f \in [1..n -> (0..MaxArrival) \X (1..(MaxWork - n + 1))] } :
              TotalBurst(ps) <= MaxWork } : n \in 1..MaxProcs }

InputsOf(a) ==
  GenInputs \cup (CASE a = "fcfs" -> {MainFCFS}
                    [] a = "mp"   -> {MainMP}
                    [] a = "rr"   -> {MainSJF, MainRR}
                    [] OTHER      -> {MainSJF})

\* the state after the initialisation statements, for the chosen inputs
Constructed ==
  /\ processes_sorted = (IF alg = "mp" THEN <<>> ELSE SortByArrival(processes))
  /\ pc = "run"
  /\ timeline = <<>>
  /\ current_time = 0
  /\ k = 1
  /\ completed = {}
  /\ remaining = (IF alg \in {"srtf", "rr", "mp"}
                  THEN [id \in Ids(processes) |->
                          (CHOOSE p \in Range(processes) : p.id = id).burst]
                  ELSE <<>>)
  /\ time = 0
  /\ current_process = None
  /\ segment_start = 0
  /\ LET adm == AdmitRR(<<>>, 0, processes_sorted, 0)
     IN  IF alg = "rr"
         THEN ready_queue = adm.queue /\ i = adm.i
         ELSE ready_queue = <<>> /\ i = 0
  /\ global_time = 0
  /\ schedule_events = <<>>
  /\ finished = {}
  /\ processors = [x \in 1..num_proc |->
                     [proc |-> None, remaining_slice |-> 0,
                      event_start |-> NoneTime, idle |-> None]]

Init ==
  /\ alg \in {"fcfs", "sjf", "srtf", "rr", "mp"}
  /\ processes \in InputsOf(alg)
  /\ time_quantum \in (IF alg \in {"rr", "mp"} THEN 1..MaxQuantum ELSE {0})
  /\ num_proc \in (IF alg = "mp" THEN 1..MaxProcessors ELSE {0})
  /\ Constructed

\* ------------------------------------------------------- any argument
\* fcfs_schedule, sjf_non_preemptive_schedule and round_robin_schedule take
\* the list (and the quantum) as arguments and inspect nothing before the
\* loop: the list may be empty, an arrival negative, a burst or the quantum 0.
SmallLists ==
  UNION { { [x \in 1..n |-> [id |-> PIDS[x], arrival |-> f[x][1], burst |-> f[x][2]]] :
              f \in [1..n -> ((0 - 1)..1) \X (0..2)] } : n \in 0..2 }

InitAnyArgument ==
  /\ alg \in {"fcfs", "sjf", "rr"}
  /\ processes \in SmallLists
  /\ time_quantum \in (IF alg = "rr" THEN 0..1 ELSE {0})
  /\ num_proc = 0
  /\ Constructed

\* ------------------------------------------------------------------ FCFS
\* question1.py fcfs_schedule: one iteration of `for p in processes_sorted`
FCFSStep ==
  /\ alg = "fcfs" /\ pc = "run" /\ k <= Len(processes_sorted)
  /\ LET p        == processes_sorted[k]
         idleSeg  == IdleBefore(current_time, p.arrival)
         start_time == StartTime(current_time, p.arrival)
         end_time == start_time + p.burst
     IN  /\ timeline' = timeline \o idleSeg \o <<Seg(p.id, start_time, end_time)>>
         /\ current_time' = end_time
  /\ k' = k + 1
  /\ UNCHANGED <<alg, pc, processes, processes_sorted, time_quantum, num_proc,
                 ready_queue, completed, remaining, time, current_process,
                 segment_start, i, global_time, schedule_events, finished,
                 processors>>

FCFSReturn ==
  /\ alg = "fcfs" /\ pc = "run" /\ k > Len(processes_sorted)
  /\ pc' = "done"
  /\ UNCHANGED <<alg, processes, processes_sorted, time_quantum, num_proc,
                 timeline, current_time, k, ready_queue, completed, remaining,
                 time, current_process, segment_start, i, global_time,
                 schedule_events, finished, processors>>


\* ------------------------------------------------------------------- SJF
\* question2.py sjf_non_preemptive_schedule: one iteration of the while loop
\* that finds the ready queue empty (lines 19-29)
SJFIdle ==
  /\ alg = "sjf" /\ pc = "run"
  /\ Cardinality(completed) < Len(processes)
  /\ LET rq == AdmitSJF(ready_queue, processes_sorted, completed, current_time)
     IN  /\ rq = <<>>
         /\ LET next_arrival == NextArrival(processes_sorted, completed)
            IN  /\ timeline' = Append(timeline, Seg(Idle, current_time, next_arrival))
                /\ current_time' = next_arrival
         /\ ready_queue' = rq
  /\ UNCHANGED <<alg, pc, processes, processes_sorted, time_quantum, num_proc,
                 k, completed, remaining, time, current_process,
                 segment_start, i, global_time, schedule_events, finished,
                 processors>>

\* one iteration of the while loop that runs a process (lines 19-22, 31-42)
SJFDispatch ==
  /\ alg = "sjf" /\ pc = "run"
  /\ Cardinality(completed) < Len(processes)
  /\ LET rq == AdmitSJF(ready_queue, processes_sorted, completed, current_time)
     IN  /\ rq # <<>>
         /\ LET sorted           == SortByBurst(rq)
                shortest_process == Head(sorted)
                start_time       == current_time
                end_time         == start_time + shortest_process.burst
            IN  /\ ready_queue' = Tail(sorted)
                /\ timeline' = Append(timeline,
                                      Seg(shortest_process.id, start_time, end_time))
                /\ current_time' = end_time
                /\ completed' = completed \cup {shortest_process.id}
  /\ UNCHANGED <<alg, pc, processes, processes_sorted, time_quantum, num_proc,
                 k, remaining, time, current_process,
                 segment_start, i, global_time, schedule_events, finished,
                 processors>>

SJFReturn ==
  /\ alg = "sjf" /\ pc = "run"
  /\ ~(Cardinality(completed) < Len(processes))
  /\ pc' = "done"
  /\ UNCHANGED <<alg, processes, processes_sorted, time_quantum, num_proc,
                 timeline, current_time, k, ready_queue, completed, remaining,
                 time, current_process, segment_start, i, global_time,
                 schedule_events, finished, processors>>

\* ------------------------------------------------------------------ SRTF
\* question3.py sjf_preemptive_schedule: an iteration with nothing available
\* (lines 25-35)
SRTFIdle ==
  /\ alg = "srtf" /\ pc = "run"
  /\ Cardinality(completed) < Len(processes)
  /\ Available(processes_sorted, completed, time) = <<>>
  /\ IF current_process # Idle
     THEN /\ timeline' = (IF current_process # None
                          THEN Append(timeline, Seg(current_process, segment_start, time))
                          ELSE timeline)
          /\ current_process' = Idle
          /\ segment_start' = time
     ELSE UNCHANGED <<timeline, current_process, segment_start>>
  /\ time' = time + 1
  /\ UNCHANGED <<alg, pc, processes, processes_sorted, time_quantum, num_proc,
                 current_time, k, ready_queue, completed, remaining,
                 i, global_time, schedule_events, finished, processors>>

\* line 41: a segment is closed only when another process takes over
SwitchingEveryUnit(cur, next_id) == TRUE

Switching(cur, next_id) == cur # next_id

\* an iteration that executes one unit of a process (lines 25, 37-56)
SRTFRun ==
  /\ alg = "srtf" /\ pc = "run"
  /\ Cardinality(completed) < Len(processes)
  /\ LET available == Available(processes_sorted, completed, time)
     IN  /\ available # <<>>
         /\ LET next_proc == FirstMinRemaining(available, remaining)
                switch    == Switching(current_process, next_proc.id)
                tl1       == IF switch /\ current_process # None
                             THEN Append(timeline, Seg(current_process, segment_start, time))
                             ELSE timeline
                start1    == IF switch THEN time ELSE segment_start
                rem1      == [remaining EXCEPT ![next_proc.id] = @ - 1]
            IN  /\ remaining' = rem1
                /\ time' = time + 1
                /\ IF rem1[next_proc.id] = 0
                   THEN /\ timeline' = Append(tl1, Seg(next_proc.id, start1, time + 1))
                        /\ completed' = completed \cup {next_proc.id}
                        /\ current_process' = None
                        /\ segment_start' = time + 1
                   ELSE /\ timeline' = tl1
                        /\ completed' = completed
                        /\ current_process' = next_proc.id
                        /\ segment_start' = start1
  /\ UNCHANGED <<alg, pc, processes, processes_sorted, time_quantum, num_proc,
                 current_time, k, ready_queue,
                 i, global_time, schedule_events, finished, processors>>

SRTFReturn ==
  /\ alg = "srtf" /\ pc = "run"
  /\ ~(Cardinality(completed) < Len(processes))
  /\ pc' = "done"
  /\ UNCHANGED <<alg, processes, processes_sorted, time_quantum, num_proc,
                 timeline, current_time, k, ready_queue, completed, remaining,
                 time, current_process, segment_start, i, global_time,
                 schedule_events, finished, processors>>

\* -------------------------------------------------------------------- RR
\* question4.py round_robin_schedule: an iteration with an empty queue
\* (lines 32-39)
RRIdle ==
  /\ alg = "rr" /\ pc = "run"
  /\ ready_queue = <<>> /\ i < Len(processes)
  /\ Len(timeline) < MaxSegments
  /\ LET next_arrival == processes_sorted[i + 1].arrival
         adm          == AdmitRR(ready_queue, i, processes_sorted, next_arrival)
     IN  /\ timeline' = Append(timeline, Seg(Idle, current_time, next_arrival))
         /\ current_time' = next_arrival
         /\ ready_queue' = adm.queue
         /\ i' = adm.i
  /\ UNCHANGED <<alg, pc, processes, processes_sorted, time_quantum, num_proc,
                 k, completed, remaining, time, current_process,
                 segment_start, global_time, schedule_events, finished,
                 processors>>

\* an iteration that runs the head of the queue for one slice (lines 41-57)
RRDispatch ==
  /\ alg = "rr" /\ pc = "run"
  /\ ready_queue # <<>>
  /\ Len(timeline) < MaxSegments
  /\ LET proc       == Head(ready_queue)
         pid        == proc.id
         exec_time  == ExecTime(time_quantum, remaining[pid])
         start_time == current_time
         end_time   == current_time + exec_time
         rem1       == [remaining EXCEPT ![pid] = @ - exec_time]
         adm        == AfterSlice(Tail(ready_queue), i, processes_sorted, end_time,
                                  proc, rem1[pid] > 0)
     IN  /\ timeline' = Append(timeline, Seg(pid, start_time, end_time))
         /\ current_time' = end_time
         /\ remaining' = rem1
         /\ i' = adm.i
         /\ ready_queue' = adm.queue
  /\ UNCHANGED <<alg, pc, processes, processes_sorted, time_quantum, num_proc,
                 k, completed, time, current_process,
                 segment_start, global_time, schedule_events, finished,
                 processors>>

RRReturn ==
  /\ alg = "rr" /\ pc = "run"
  /\ ~(ready_queue # <<>> \/ i < Len(processes))
  /\ pc' = "done"
  /\ UNCHANGED <<alg, processes, processes_sorted, time_quantum, num_proc,
                 timeline, current_time, k, ready_queue, completed, remaining,
                 time, current_process, segment_start, i, global_time,
                 schedule_events, finished, processors>>


\* ------------------------------------------------------ multi-processor RR
Event(id, s, e, n) == [id |-> id, start |-> s, end |-> e, processor |-> n]

\* question6.py lines 43-45: the loop test and add_arrivals(global_time)
MPLoopHead ==
  /\ alg = "mp" /\ pc = "run"
  /\ IF Cardinality(finished) < Len(processes)
     THEN /\ ready_queue' = ready_queue \o ArrivalsAt(processes, global_time)
          /\ i' = 0
          /\ pc' = "mp_proc"
     ELSE /\ pc' = "done"
          /\ UNCHANGED <<ready_queue, i>>
  /\ UNCHANGED <<alg, processes, processes_sorted, time_quantum, num_proc,
                 timeline, current_time, k, completed, remaining, time,
                 current_process, segment_start, global_time,
                 schedule_events, finished, processors>>

\* line 68: ready_queue.append(current_pid)
RequeueAtFront(queue, pid) == <<pid>> \o queue

Requeue(queue, pid) == Append(queue, pid)

\* lines 50-71: a busy processor executes one unit; the process may finish
\* or its slice may expire.  `st` is the working state of the iteration.
MPUpdate(st, n) ==
  LET ps  == st.ps
      cur == ps.proc
  IN  IF cur = None THEN st
      ELSE LET slice1 == ps.remaining_slice - 1
               rem1   == [st.remaining EXCEPT ![cur] = @ - 1]
               ev     == Event(cur, ps.event_start, global_time + 1, n)
           IN  IF rem1[cur] = 0
               THEN [st EXCEPT !.remaining = rem1,
                               !.events = Append(@, ev),
                               !.finished = @ \cup {cur},
                               !.ps = [ps EXCEPT !.proc = None,
                                                 !.remaining_slice = 0,
                                                 !.event_start = NoneTime]]
               ELSE IF slice1 = 0
               THEN [st EXCEPT !.remaining = rem1,
                               !.events = Append(@, ev),
                               !.queue = Requeue(@, cur),
                               !.ps = [ps EXCEPT !.proc = None,
                                                 !.remaining_slice = slice1,
                                                 !.event_start = NoneTime]]
               ELSE [st EXCEPT !.remaining = rem1,
                               !.ps = [ps EXCEPT !.remaining_slice = slice1]]

\* line 74: `if ready_queue:`
HasSeveralWaiting(queue) == Len(queue) > 1

HasWaiting(queue) == queue # <<>>

\* lines 73-92: dispatch to a free processor, or idle bookkeeping.
\* `skip` is the `continue` of line 78.
MPAssign(st) ==
  LET ps == st.ps
  IN  IF ps.proc = None
      THEN IF HasWaiting(st.queue)
           THEN LET next_pid == Head(st.queue)
                IN  IF next_pid \in st.finished
                    THEN [st EXCEPT !.queue = Tail(@), !.skip = TRUE]
                    ELSE [st EXCEPT !.queue = Tail(@),
                                    !.ps = [ps EXCEPT
                                       !.proc = next_pid,
                                       !.remaining_slice =
                                           ExecTime(time_quantum, st.remaining[next_pid]),
                                       !.event_start = global_time]]
           ELSE IF ps.idle = None
                THEN [st EXCEPT !.ps = [ps EXCEPT !.idle = "True",
                                                  !.event_start = global_time]]
                ELSE st
      ELSE [st EXCEPT !.ps = [ps EXCEPT !.idle = "False"]]

\* lines 95-98: the idle event.  Comparing global_time with an event_start
\* of None raises TypeError, which ends the script.
MPIdleEvent(st, n) ==
  LET ps == st.ps
  IN  IF st.skip \/ ps.proc # None \/ ps.idle # "True" THEN st
      ELSE IF ps.event_start = NoneTime THEN [st EXCEPT !.crash = TRUE]
      ELSE IF global_time > ps.event_start
      THEN [st EXCEPT !.events = Append(@, Event(Idle, ps.event_start,
                                                   global_time + 1, n)),
                      !.ps = [ps EXCEPT !.event_start = global_time + 1]]
      ELSE st

\* one pass of `for i in range(NUM_PROC)` (lines 48-98); after the last
\* processor, global_time += 1 (line 100)
MPProc ==
  /\ alg = "mp" /\ pc = "mp_proc"
  /\ LET st0 == [ps |-> processors[i + 1], remaining |-> remaining,
                 events |-> schedule_events, queue |-> ready_queue,
                 finished |-> finished, skip |-> FALSE, crash |-> FALSE]
         st  == MPIdleEvent(MPAssign(MPUpdate(st0, i + 1)), i + 1)
     IN  /\ processors' = [processors EXCEPT ![i + 1] = st.ps]
         /\ remaining' = st.remaining
         /\ schedule_events' = st.events
         /\ ready_queue' = st.queue
         /\ finished' = st.finished
         /\ IF st.crash
            THEN pc' = "crashed" /\ UNCHANGED <<i, global_time>>
            ELSE IF i + 1 < num_proc
            THEN pc' = pc /\ i' = i + 1 /\ UNCHANGED global_time
            ELSE pc' = "run" /\ i' = i + 1 /\ global_time' = global_time + 1
  /\ UNCHANGED <<alg, processes, processes_sorted, time_quantum, num_proc,
                 timeline, current_time, k, completed, time,
                 current_process, segment_start>>

Next ==
  \/ FCFSStep \/ FCFSReturn
  \/ SJFIdle \/ SJFDispatch \/ SJFReturn
  \/ SRTFIdle \/ SRTFRun \/ SRTFReturn
  \/ RRIdle \/ RRDispatch \/ RRReturn
  \/ MPLoopHead \/ MPProc

Spec == Init /\ [][Next]_vars

\* every program is one sequential thread: an enabled step is eventually taken
LiveSpec == Spec /\ WF_vars(Next)

\* the functions that take their input as arguments, called with any small
\* argument: no code of theirs inspects the values before the loop starts
NextAnyArgument ==
  \/ FCFSStep \/ FCFSReturn
  \/ SJFIdle \/ SJFDispatch \/ SJFReturn
  \/ RRIdle \/ RRDispatch \/ RRReturn

AnyArgumentSpec == InitAnyArgument /\ [][NextAnyArgument]_vars

\* ================================================================ claims
SingleProcessor == alg \in {"fcfs", "sjf", "srtf", "rr"}

Proc(id) == CHOOSE p \in Range(processes) : p.id = id
IndexOf(id) == CHOOSE x \in 1..Len(processes) : processes[x].id = id
SegmentsOf(tl, id) == {j \in 1..Len(tl) : tl[j].id = id}

\* C1: in the timeline returned by FCFS, SJF, SRTF and RR, the durations of
\* the segments of each process add up to exactly that process's burst.
C1_BurstConserved ==
  (SingleProcessor /\ pc = "done") =>
     \A x \in 1..Len(processes) :
        Duration(timeline, processes[x].id) = processes[x].burst

\* a finished Round-Robin run in which some process was cut into several slices
C1_Witness ==
  /\ alg = "rr" /\ pc = "done"
  /\ \E x \in 1..Len(processes) :
        Cardinality(SegmentsOf(timeline, processes[x].id)) >= 2

\* C2: the timeline of FCFS, SJF, SRTF and RR starts at 0, every later
\* segment starts where the previous one ends, and every segment has
\* start < end.
Gapless(tl) ==
  \A j \in 1..Len(tl) :
     /\ tl[j].start < tl[j].end
     /\ tl[j].start = (IF j = 1 THEN 0 ELSE tl[j - 1].end)

C2_Gapless == SingleProcessor => Gapless(timeline)

\* a finished FCFS run whose timeline has an Idle segment between two processes
C2_Witness ==
  /\ alg = "fcfs" /\ pc = "done"
  /\ \E j \in 2..(Len(timeline) - 1) : timeline[j].id = Idle

\* C3: in the multi-processor simulation the events recorded for one
\* processor never overlap and leave no gap: every time unit from 0 to the
\* processor's last recorded end is covered by exactly one event.
EventsOn(n) == {j \in 1..Len(schedule_events) : schedule_events[j].processor = n}
LastEnd(n) ==
  LET ends == {schedule_events[j].end : j \in EventsOn(n)} \cup {0}
  IN  CHOOSE e \in ends : \A f \in ends : f <= e
Covering(n, t) ==
  {j \in EventsOn(n) : schedule_events[j].start <= t /\ t < schedule_events[j].end}

C3_MPGapless ==
  alg = "mp" =>
     \A n \in 1..num_proc : \A t \in 0..(LastEnd(n) - 1) :
        Cardinality(Covering(n, t)) = 1

\* C4: when the multi-processor loop ends, the durations of the events of
\* each process add up to that process's burst.
C4_MPBurstConserved ==
  (alg = "mp" /\ pc = "done") =>
     \A x \in 1..Len(processes) :
        Duration(schedule_events, processes[x].id) = processes[x].burst

\* C5: at most num_proc processors run a process, no process is the current
\* process of two processors, and no process owns two events on different
\* processors whose intervals intersect.
C5_MPNoDoubleAssignment ==
  (alg = "mp" /\ pc # "crashed") =>
     /\ Cardinality({n \in 1..num_proc : processors[n].proc # None}) <= num_proc
     /\ \A n, m \in 1..num_proc :
           (n # m /\ processors[n].proc # None)
              => processors[n].proc # processors[m].proc
     /\ \A a, b \in 1..Len(schedule_events) :
           LET e == schedule_events[a]
               f == schedule_events[b]
           IN  (e.id = f.id /\ e.id # Idle /\ e.processor # f.processor)
                  => (e.end <= f.start \/ f.end <= e.start)

\* C6: every run terminates normally with every process complete.
AllComplete ==
  CASE alg = "fcfs"          -> k > Len(processes)
    [] alg = "sjf"           -> Ids(processes) \subseteq completed
    [] alg = "srtf"          -> /\ Ids(processes) \subseteq completed
                                /\ \A id \in Ids(processes) : remaining[id] = 0
    [] alg = "rr"            -> \A id \in Ids(processes) : remaining[id] = 0
    [] OTHER                 -> /\ Ids(processes) \subseteq finished
                                /\ \A id \in Ids(processes) : remaining[id] = 0

C6_Terminates == <>(pc = "done" /\ AllComplete)

\* C7: in every SRTF time unit in which some process is eligible, the
\* process that executes has the least remaining time among the eligible
\* ones; ties go to the earliest arrival, then to the earliest in the input.
SRTFEligible ==
  {x \in 1..Len(processes) :
      processes[x].arrival <= time /\ remaining[processes[x].id] > 0}

Executes(x) ==
  /\ remaining'[processes[x].id] = remaining[processes[x].id] - 1
  /\ \A y \in 1..Len(processes) :
        y # x => remaining'[processes[y].id] = remaining[processes[y].id]

\* x is preferred to y: smaller key, then earlier arrival, then input order
Preferred(x, y, key) ==
  \/ key[x] < key[y]
  \/ /\ key[x] = key[y]
     /\ \/ processes[x].arrival < processes[y].arrival
        \/ processes[x].arrival = processes[y].arrival /\ x <= y

C7_SRTFRunsShortestRemaining ==
  [][ (alg = "srtf" /\ time' = time + 1 /\ SRTFEligible # {}) =>
        \E x \in SRTFEligible :
           /\ Executes(x)
           /\ \A y \in SRTFEligible :
                 Preferred(x, y, [z \in 1..Len(processes) |->
                                     remaining[processes[z].id]]) ]_vars

\* a process has just executed although an eligible process with the same
\* remaining time stands before it in the input: its earlier arrival decided
C7_Witness ==
  /\ alg = "srtf" /\ time >= 1
  /\ \E x, y \in 1..Len(processes) :
        /\ y < x
        /\ current_process = processes[x].id
        /\ processes[x].arrival < processes[y].arrival
        /\ processes[y].arrival <= time - 1
        /\ remaining[processes[y].id] = remaining[processes[x].id] + 1

\* C8: when a process becomes eligible at time t with a remaining time
\* strictly smaller than that of the process running just before t, the
\* running segment is closed at t (shorter than the burst), the newcomer's
\* segment starts at t, and the preempted process gets further segments
\* until its burst is consumed.
Running == alg = "srtf" /\ pc = "run" /\ current_process \notin {None, Idle}

Newcomers ==
  {x \in 1..Len(processes) :
      /\ processes[x].arrival = time
      /\ remaining[processes[x].id] < remaining[current_process]}

RECURSIVE DurationUpTo(_, _, _)
DurationUpTo(tl, id, j) ==
  IF j = 0 THEN 0
  ELSE (IF tl[j].id = id THEN tl[j].end - tl[j].start ELSE 0)
       + DurationUpTo(tl, id, j - 1)

C8_SRTFPreempts ==
  /\ [][ (Running /\ Newcomers # {}) =>
           /\ Len(timeline') > Len(timeline)
           /\ timeline'[Len(timeline) + 1] = Seg(current_process, segment_start, time)
           /\ time - segment_start < Proc(current_process).burst
           /\ \E x \in Newcomers :
                 /\ Executes(x)
                 /\ IF remaining'[processes[x].id] = 0
                    THEN timeline'[Len(timeline) + 2] = Seg(processes[x].id, time, time + 1)
                    ELSE /\ current_process' = processes[x].id
                         /\ segment_start' = time ]_vars
  /\ [] ( (alg = "srtf" /\ pc = "done") =>
            \A j \in 1..Len(timeline) :
               LET id == timeline[j].id
               IN  id # Idle =>
                     /\ Duration(timeline, id) = Proc(id).burst
                     /\ DurationUpTo(timeline, id, j) < Proc(id).burst
                          => \E h \in (j + 1)..Len(timeline) : timeline[h].id = id )

\* a finished SRTF run in which a process was preempted and resumed later
C8_Witness ==
  /\ alg = "srtf" /\ pc = "done"
  /\ \E j, h \in 1..Len(timeline) :
        /\ j + 1 < h
        /\ timeline[j].id = timeline[h].id
        /\ timeline[j].id # Idle
        /\ timeline[j + 1].id # Idle
        /\ timeline[j + 1].start = Proc(timeline[j + 1].id).arrival

\* C9: every SJF dispatch at time t picks, among the processes that have
\* arrived by t and have not run, one with the least burst; ties go to the
\* earliest arrival, then to the earliest in the input.  On the list of
\* __main__, P2 runs [5,6) right after P1.
NotYetRun(tl) ==
  {x \in 1..Len(processes) : SegmentsOf(tl, processes[x].id) = {}}

C9_SJFPicksShortest ==
  /\ [][ (alg = "sjf" /\ Len(timeline') = Len(timeline) + 1
                      /\ timeline'[Len(timeline')].id # Idle) =>
           LET seg == timeline'[Len(timeline')]
               t   == seg.start
               x   == IndexOf(seg.id)
               candidates == {y \in NotYetRun(timeline) : processes[y].arrival <= t}
           IN  /\ t = current_time
               /\ x \in candidates
               /\ \A y \in candidates :
                     Preferred(x, y, [z \in 1..Len(processes) |-> processes[z].burst]) ]_vars
  /\ [] ( (alg = "sjf" /\ processes = MainSJF /\ pc = "done") =>
             /\ timeline[1] = Seg("P1", 0, 5)
             /\ timeline[2] = Seg("P2", 5, 6) )

\* a dispatch decided by arrival: the chosen process stands later in the
\* input than a waiting process of the same burst, but arrived earlier
C9_Witness ==
  /\ alg = "sjf"
  /\ \E j \in 1..Len(timeline) : \E y \in 1..Len(processes) :
        /\ timeline[j].id # Idle
        /\ y < IndexOf(timeline[j].id)
        /\ processes[y].burst = Proc(timeline[j].id).burst
        /\ Proc(timeline[j].id).arrival < processes[y].arrival
        /\ processes[y].arrival <= timeline[j].start
        /\ \A h \in 1..j : timeline[h].id # processes[y].id

\* C10: FCFS runs the processes in ascending arrival order, equal arrivals in
\* input order; a process starts at max(arrival, end of the previous
\* process), and an Idle segment [previous end, arrival) precedes it exactly
\* when the previous end is smaller than its arrival.  On the list of
\* __main__ the timeline is P1[0,5) P2[5,6) Idle[6,10) P3[10,21) P4[21,23)
\* P5[23,35).
PrevEnd(tl, j) ==
  LET before == {h \in 1..(j - 1) : tl[h].id # Idle}
  IN  IF before = {} THEN 0
      ELSE tl[CHOOSE h \in before : \A g \in before : g <= h].end

C10_FCFSOrder ==
  (alg = "fcfs" /\ pc = "done") =>
     /\ \A x \in 1..Len(processes) : SegmentsOf(timeline, processes[x].id) # {}
     /\ \A j, h \in 1..Len(timeline) :
           (j < h /\ timeline[j].id # Idle /\ timeline[h].id # Idle) =>
              LET x == IndexOf(timeline[j].id)
                  y == IndexOf(timeline[h].id)
              IN  \/ processes[x].arrival < processes[y].arrival
                  \/ processes[x].arrival = processes[y].arrival /\ x < y
     /\ \A j \in 1..Len(timeline) :
           IF timeline[j].id = Idle
           THEN j < Len(timeline) /\ timeline[j + 1].id # Idle
           ELSE LET p    == Proc(timeline[j].id)
                    prev == PrevEnd(timeline, j)
                IN  /\ timeline[j].start = Max(p.arrival, prev)
                    /\ (prev < p.arrival) <=>
                          (j > 1 /\ timeline[j - 1] = Seg(Idle, prev, p.arrival))
     /\ processes = MainFCFS =>
           timeline = << Seg("P1", 0, 5), Seg("P2", 5, 6), Seg(Idle, 6, 10),
                         Seg("P3", 10, 21), Seg("P4", 21, 23), Seg("P5", 23, 35) >>

\* a finished FCFS run with two processes of equal arrival, the input
\* order reversed by a later-listed earlier arrival, and an Idle segment
C10_Witness ==
  /\ alg = "fcfs" /\ pc = "done"
  /\ \E x, y, z \in 1..Len(processes) :
        /\ x < y /\ y < z
        /\ processes[x].arrival = processes[y].arrival
        /\ processes[z].arrival < processes[x].arrival
  /\ \E j \in 1..Len(timeline) : timeline[j].id = Idle

\* C11: every Round-Robin dispatch takes the head of the ready queue and
\* runs it for exactly min(quantum, remaining) units, so no process segment
\* is longer than the quantum; a process with time left goes to the back of
\* the queue, a finished one never runs again.  With quantum 2 on
\* [{P1,0,5},{P2,3,1},{P3,10,11}] the first segment is P1[0,2).
QueueIds(q) == {q[x].id : x \in 1..Len(q)}

RRDispatched ==
  /\ alg = "rr"
  /\ Len(timeline') = Len(timeline) + 1
  /\ timeline'[Len(timeline')].id # Idle

C11_RRSlice ==
  /\ [][ RRDispatched =>
           LET seg == timeline'[Len(timeline')]
               len == seg.end - seg.start
           IN  /\ ready_queue # <<>>
               /\ seg.id = Head(ready_queue).id
               /\ seg.start = current_time
               /\ len = Min(time_quantum, remaining[seg.id])
               /\ len <= time_quantum
               /\ remaining'[seg.id] = remaining[seg.id] - len
               /\ IF remaining'[seg.id] > 0
                  THEN ready_queue'[Len(ready_queue')] = Head(ready_queue)
                  ELSE seg.id \notin QueueIds(ready_queue') ]_vars
  /\ [] ( alg = "rr" =>
            /\ \A id \in QueueIds(ready_queue) : remaining[id] > 0
            /\ \A j \in 1..Len(timeline) :
                  timeline[j].id # Idle =>
                     timeline[j].end - timeline[j].start <= time_quantum
            /\ (processes = MainRR /\ time_quantum = 2 /\ timeline # <<>>)
                  => timeline[1] = Seg("P1", 0, 2) )

\* a finished Round-Robin run with quantum 2 in which one process used a
\* whole quantum, went to the back of the queue behind another process and
\* later finished in a shorter slice
C11_Witness ==
  /\ alg = "rr" /\ pc = "done" /\ time_quantum = 2
  /\ \E j, h \in 1..Len(timeline) :
        /\ j + 1 < h
        /\ timeline[j].id = timeline[h].id
        /\ timeline[j].id # Idle
        /\ timeline[j].end - timeline[j].start = 2
        /\ timeline[h].end - timeline[h].start = 1
        /\ timeline[j + 1].id \notin {Idle, timeline[j].id}

\* C12: when a Round-Robin slice ending at T leaves its process unfinished,
\* every process with arrival <= T that was not yet admitted (also one
\* arriving exactly at T) enters the queue ahead of the preempted process,
\* in arrival order, and so gets its first slice before that process resumes.
Unadmitted ==
  {x \in 1..Len(processes) :
      /\ processes[x].id \notin QueueIds(ready_queue)
      /\ SegmentsOf(timeline, processes[x].id) = {}}

C12_RRArrivalsFirst ==
  /\ [][ (RRDispatched /\ remaining'[timeline'[Len(timeline')].id] > 0) =>
           LET T    == timeline'[Len(timeline')].end
               old  == Tail(ready_queue)
               new  == {x \in Unadmitted : processes[x].arrival <= T}
               n    == Len(ready_queue')
               from == Len(old) + 1
               to   == n - 1
           IN  /\ n = Len(old) + Cardinality(new) + 1
               /\ SubSeq(ready_queue', 1, Len(old)) = old
               /\ ready_queue'[n] = Head(ready_queue)
               /\ {ready_queue'[y].id : y \in from..to} = {processes[x].id : x \in new}
               /\ \A y, z \in from..to :
                     y < z =>
                        LET a == IndexOf(ready_queue'[y].id)
                            b == IndexOf(ready_queue'[z].id)
                        IN  \/ processes[a].arrival < processes[b].arrival
                            \/ processes[a].arrival = processes[b].arrival /\ a < b ]_vars
  /\ [] ( alg = "rr" =>
            \A j, h \in 1..Len(timeline) :
               ( /\ j < h
                 /\ timeline[j].id # Idle
                 /\ timeline[h].id = timeline[j].id ) =>
                  \A x \in 1..Len(processes) :
                     processes[x].arrival <= timeline[j].end =>
                        \E g \in 1..(h - 1) : timeline[g].id = processes[x].id )

\* a process that arrived exactly at the end of a slice has run its first
\* slice, and the preempted process has resumed after it
C12_Witness ==
  /\ alg = "rr"
  /\ \E j, h \in 1..Len(timeline) :
        /\ j + 1 < h
        /\ timeline[j].id # Idle
        /\ timeline[h].id = timeline[j].id
        /\ timeline[j + 1].id \notin {Idle, timeline[j].id}
        /\ Proc(timeline[j + 1].id).arrival = timeline[j].end
        /\ SegmentsOf(SubSeq(timeline, 1, j), timeline[j + 1].id) = {}

\* C13: within one time unit every processor update comes before any
\* dispatch and the free processors dequeue in ascending index, so at the
\* end of a time step no processor was dispatched in that step while a
\* lower-indexed processor was left without a process.
EndOfStep == alg = "mp" /\ pc = "run" /\ global_time >= 1

C13_MPLowestFreeFirst ==
  EndOfStep =>
     \A n, m \in 1..num_proc :
        n < m => ~ ( /\ processors[n].proc = None
                     /\ processors[m].proc # None
                     /\ processors[m].event_start = global_time - 1 )

\* C14: in SRTF, Round-Robin and the multi-processor loop the remaining
\* time of a process starts at its burst, never increases, is never
\* negative, and the process is marked complete exactly when it reaches 0.
KeepsRemaining == alg \in {"srtf", "rr", "mp"}

MarkedComplete(id) ==
  CASE alg = "srtf" -> id \in completed
    [] alg = "mp"   -> id \in finished
    [] OTHER        -> \* Round-Robin keeps no set: complete = out of the queue for good
                       /\ id \notin QueueIds(ready_queue)
                       /\ SegmentsOf(timeline, id) # {}

C14_Remaining ==
  /\ KeepsRemaining =>
        \A x \in 1..Len(processes) : remaining[processes[x].id] = processes[x].burst
  /\ [][ KeepsRemaining =>
           \A id \in Ids(processes) : remaining'[id] <= remaining[id] ]_vars
  /\ [] ( KeepsRemaining =>
            \A x \in 1..Len(processes) :
               LET id == processes[x].id
               IN  /\ remaining[id] >= 0
                   /\ remaining[id] <= processes[x].burst
                   /\ MarkedComplete(id) <=> remaining[id] = 0 )

\* one process is complete with remaining time 0 while another has been
\* cut down but still has time left
C14_Witness ==
  /\ KeepsRemaining
  /\ \E x, y \in 1..Len(processes) :
        /\ remaining[processes[x].id] = 0
        /\ MarkedComplete(processes[x].id)
        /\ remaining[processes[y].id] > 0
        /\ remaining[processes[y].id] < processes[y].burst

\* C15: invalid input (empty list, negative arrival, non-positive burst,
\* non-positive quantum) is reported as an error before any simulation step:
\* no segment is ever built from it.
ValidList(ps) ==
  /\ ps # <<>>
  /\ \A x \in 1..Len(ps) : ps[x].arrival >= 0 /\ ps[x].burst >= 1
  /\ \A x, y \in 1..Len(ps) : x # y => ps[x].id # ps[y].id

InvalidInput ==
  \/ ~ValidList(processes)
  \/ alg \in {"rr", "mp"} /\ time_quantum < 1
  \/ alg = "mp" /\ num_proc < 1

C15_InvalidInputRejected == InvalidInput => timeline = <<>>

\* C16 (as stated): in every scheduler's output, consecutive segments on the
\* same processor never have the same owner.
EventsOf(n) ==
  LET F[j \in 0..Len(schedule_events)] ==
        IF j = 0 THEN <<>>
        ELSE IF schedule_events[j].processor = n
             THEN Append(F[j - 1], schedule_events[j])
             ELSE F[j - 1]
  IN  F[Len(schedule_events)]

NoAdjacentSameOwner(tl) ==
  \A j \in 1..(Len(tl) - 1) : tl[j].id # tl[j + 1].id

C16_AllCoalesced ==
  IF alg = "mp"
  THEN \A n \in 1..num_proc : NoAdjacentSameOwner(EventsOf(n))
  ELSE NoAdjacentSameOwner(timeline)

\* C16 (amended): in the timelines of FCFS, SJF and SRTF consecutive
\* segments never have the same owner: back-to-back units of one process and
\* back-to-back idle time are each one segment.  Round-Robin does not
\* coalesce: every slice appends a segment of its own and leaves the earlier
\* segments as they are.
C16_CoalescedExceptRR ==
  /\ [] ( alg \in {"fcfs", "sjf", "srtf"} => NoAdjacentSameOwner(timeline) )
  /\ [][ (alg = "rr" /\ remaining' # remaining) =>
           /\ Len(timeline') = Len(timeline) + 1
           /\ SubSeq(timeline', 1, Len(timeline)) = timeline ]_vars

\* a finished SRTF run whose timeline holds a process segment and an Idle
\* segment of several units each, the process having been preempted before
C16_Witness ==
  /\ alg = "srtf" /\ pc = "done"
  /\ \E j, h, g \in 1..Len(timeline) :
        /\ timeline[j].id = Idle
        /\ timeline[j].end - timeline[j].start >= 2
        /\ timeline[h].id # Idle
        /\ timeline[h].end - timeline[h].start >= 2
        /\ g < h /\ timeline[g].id = timeline[h].id

\* C18: in the multi-processor loop, whenever the idle check of line 95 is
\* evaluated (the processor has no process and its idle flag is True), the
\* processor's event_start is a number, so the comparison cannot fail.
C18_IdleStartDefined ==
  alg = "mp" =>
     \A n \in 1..num_proc :
        (processors[n].proc = None /\ processors[n].idle = "True")
           => processors[n].event_start # NoneTime

\* C19: the multi-processor loop is work-conserving: at the end of every
\* time step, if some processor has no process then the ready queue is empty.
C19_MPWorkConserving ==
  EndOfStep =>
     ( (\E n \in 1..num_proc : processors[n].proc = None) => ready_queue = <<>> )

\* the end of a step in which one processor took back the process it had
\* just re-queued while another processor stays free and the queue is empty
C19_Witness ==
  /\ EndOfStep /\ ready_queue = <<>>
  /\ \E n, m \in 1..num_proc :
        /\ processors[n].proc = None
        /\ processors[m].proc # None
        /\ processors[m].event_start = global_time - 1
        /\ \E j \in EventsOn(m) :
              /\ schedule_events[j].id = processors[m].proc
              /\ schedule_events[j].end = global_time

C21_OneSegmentPerProcess ==
  alg \in {"fcfs", "sjf"} =>
     \A x \in 1..Len(processes) :
        LET p    == processes[x]
            segs == SegmentsOf(timeline, p.id)
        IN  /\ Cardinality(segs) <= 1
            /\ pc = "done" => Cardinality(segs) = 1
            /\ \A j \in segs :
                  /\ timeline[j].start >= p.arrival
                  /\ timeline[j].end = timeline[j].start + p.burst

\* a returned SJF timeline in which a process waited beyond its arrival
\* while a process that arrived after it ran first, and then ran for
\* several units in one piece
C21_Witness ==
  /\ alg = "sjf" /\ pc = "done"
  /\ \E j, h \in 1..Len(timeline) :
        /\ j < h
        /\ timeline[j].id # Idle /\ timeline[h].id # Idle
        /\ Proc(timeline[h].id).arrival < Proc(timeline[j].id).arrival
        /\ timeline[h].end - timeline[h].start >= 2

\* C22: in FCFS, SJF, SRTF and Round-Robin an Idle segment [a, b) is emitted
\* only when no process is eligible throughout it: every process with
\* arrival < b is complete at time a, and b is the arrival of the earliest
\* process that is not complete at a.
CompleteBy(tl, j, x) ==
  DurationUpTo(tl, processes[x].id, j - 1) = processes[x].burst

C22_IdleOnlyWhenNothingEligible ==
  SingleProcessor =>
     \A j \in 1..Len(timeline) :
        timeline[j].id = Idle =>
           LET a       == timeline[j].start
               b       == timeline[j].end
               pending == {x \in 1..Len(processes) : ~CompleteBy(timeline, j, x)}
           IN  /\ a < b
               /\ \A h \in 1..(j - 1) : timeline[h].end <= a
               /\ \A x \in 1..Len(processes) :
                     processes[x].arrival < b => CompleteBy(timeline, j, x)
               /\ pending # {}
               /\ \E x \in pending : processes[x].arrival = b
               /\ \A x \in pending : processes[x].arrival >= b

\* an Idle segment of several units between two processes: one process is
\* complete before it and the next one arrives exactly at its end
C22_Witness ==
  /\ SingleProcessor
  /\ \E j \in 2..Len(timeline) :
        /\ timeline[j].id = Idle
        /\ timeline[j].end - timeline[j].start >= 2
        /\ timeline[j - 1].id # Idle
        /\ j < Len(timeline)
        /\ Proc(timeline[j + 1].id).arrival = timeline[j].end

\* C23: in SRTF a running process is never preempted by a process of equal
\* remaining time: when the process executed at unit t differs from the
\* incomplete process executed at unit t - 1, its remaining time at t is
\* strictly smaller.
C23_SRTFNoPreemptionOnTie ==
  [][ (Running /\ time' = time + 1) =>
        \A x \in 1..Len(processes) :
           (Executes(x) /\ processes[x].id # current_process) =>
              remaining[processes[x].id] < remaining[current_process] ]_vars

\* a process has kept the CPU for a further unit although a process that
\* arrived at the start of that unit had the same remaining time
C23_Witness ==
  /\ alg = "srtf" /\ pc = "run"
  /\ current_process \notin {None, Idle}
  /\ segment_start < time - 1
  /\ \E y \in 1..Len(processes) :
        /\ processes[y].id # current_process
        /\ processes[y].arrival = time - 1
        /\ remaining[processes[y].id] = processes[y].burst
        /\ remaining[processes[y].id] = remaining[current_process] + 1

\* C24: in the multi-processor loop a process arriving at time t is in the
\* ready queue before any process preempted during time step t is re-queued:
\* it stands ahead of that process in the queue, and it is dispatched no
\* later than that process is dispatched again.
HasRun(id) ==
  \/ \E j \in 1..Len(schedule_events) : schedule_events[j].id = id
  \/ \E n \in 1..num_proc : processors[n].proc = id

\* the time step in which id was last preempted
LastPreempted(id) ==
  LET ends == {schedule_events[j].end : j \in SegmentsOf(schedule_events, id)}
  IN  (CHOOSE e \in ends : \A f \in ends : f <= e) - 1

DispatchedBy(id, t) ==
  \/ \E j \in 1..Len(schedule_events) :
        schedule_events[j].id = id /\ schedule_events[j].start <= t
  \/ \E n \in 1..num_proc :
        processors[n].proc = id /\ processors[n].event_start <= t

C24_MPArrivalBeforePreempted ==
  /\ [] ( alg = "mp" =>
            \A x, y \in 1..Len(ready_queue) :
               ( /\ SegmentsOf(schedule_events, ready_queue[x]) # {}
                 /\ ~HasRun(ready_queue[y])
                 /\ Proc(ready_queue[y]).arrival <= LastPreempted(ready_queue[x]) )
                  => y < x )
  /\ [] ( alg = "mp" =>
            \A n \in 1..num_proc : \A a \in 1..Len(processes) :
               LET p == processors[n].proc
               IN  ( /\ p # None
                     /\ SegmentsOf(schedule_events, p) # {}
                     /\ processes[a].id # p
                     /\ processes[a].arrival <= LastPreempted(p) )
                      => DispatchedBy(processes[a].id, processors[n].event_start) )
  /\ [][ (alg = "mp" /\ pc = "run" /\ pc' = "mp_proc") =>
           ready_queue' = ready_queue \o ArrivalsAt(processes, global_time) ]_vars

\* a process that arrived at time t stands in the queue directly ahead of a
\* process that was preempted during time step t
C24_Witness ==
  /\ alg = "mp"
  /\ \E x \in 2..Len(ready_queue) :
        /\ SegmentsOf(schedule_events, ready_queue[x]) # {}
        /\ ~HasRun(ready_queue[x - 1])
        /\ Proc(ready_queue[x - 1]).arrival = LastPreempted(ready_queue[x])
====
